---- MODULE Spec2Model ----
(***************************************************************************)
(* The Wafer compiler of chapter06.ts: symbol table construction          *)
(* (buildSymbolTable), code generation (defineToWasm), function records    *)
(* (defineFunctionDecls), module assembly (buildModule and the encoders of *)
(* chapter01.ts), and the execution of the emitted code by the target      *)
(* stack machine.                                                          *)
(*                                                                         *)
(* Byte fragments (the nested `bytes` arrays of the source) are kept as    *)
(* flat sequences of numbers; a list of fragments is a sequence of flat    *)
(* sequences, so that `elements.length` of the source is the Len of that   *)
(* list and flatten() is its concatenation.                                *)
(*                                                                         *)
(* A computation that may throw returns a record                          *)
(*   [err, id, bytes]   with err = "none" when it returned bytes.          *)
(***************************************************************************)
EXTENDS Integers, Sequences, FiniteSets, TLC

VARIABLES
  src,            \* the match result: [ok, funcs] (the syntax tree of Module)
  pc,             \* position inside compile() / the runtime
  symbols,        \* the module scope built by buildSymbolTable
  symAt,          \* number of FunctionDecl nodes buildSymbolTable has visited
  functionDecls,  \* FunctionDecl records collected by functionDecls()
  err,            \* the error thrown out of compile(), [err, id]
  out,            \* the Uint8Array compile() returned, <<>> while none
  instance,       \* the functions of the instantiated module, <<>> while none
  entry,          \* invocation of an export: [fn, args]
  frames,         \* call stack of the runtime, innermost frame last
  result          \* value returned by the invoked export, <<>> while none

vars ==
  <<src, pc, symbols, symAt, functionDecls, err, out, instance, entry, frames,
    result>>

(***************************************************************************)
(* Bounds of the model                                                     *)
(***************************************************************************)
MaxFuncs == 3
MaxParams == 2
MaxStmts == 2
MaxArg == 2
MaxCallDepth == 2

(***************************************************************************)
(* Results of computations that may throw                                  *)
(***************************************************************************)
Ok(b) == [err |-> "none", id |-> "", bytes |-> b]

Fail(e, id) == [err |-> e, id |-> id, bytes |-> <<>>]

Failed(r) == r.err # "none"

\* rs: the results of the calls a handler makes, in evaluation order.
\* The first one that threw ends the handler; otherwise it returns b.
Try(rs, b) ==
  IF \E i \in 1..Len(rs) : Failed(rs[i])
  THEN LET i == CHOOSE i \in 1..Len(rs) :
                  Failed(rs[i]) /\ \A j \in 1..(i - 1) : ~Failed(rs[j])
       IN Fail(rs[i].err, rs[i].id)
  ELSE Ok(b)

RECURSIVE Flat(_)
\* flatten(): the concatenation of a list of fragments
Flat(frags) ==
  IF frags = <<>> THEN <<>>
  ELSE IF Len(frags) = 1 THEN frags[1]
  ELSE LET h == Len(frags) \div 2
       IN Flat(SubSeq(frags, 1, h)) \o Flat(SubSeq(frags, h + 1, Len(frags)))

Bytes(rs) == [i \in 1..Len(rs) |-> rs[i].bytes]

\* numbers as one-number fragments
Single(s) == [i \in 1..Len(s) |-> <<s[i]>>]

(***************************************************************************)
(* chapter01.ts: encoders and module assembly                              *)
(***************************************************************************)
u32(v) == IF v <= 127 THEN Ok(<<v>>) ELSE Fail("Not Implemented", "")

i32(v) == IF v <= 63 THEN Ok(<<v>>) ELSE Fail("Not Implemented", "")

typeidx(v) == u32(v)

funcidx(v) == u32(v)

localidx(v) == u32(v)

labelidx(v) == u32(v)

\* elements: a list of fragments
vec(elements) ==
  Try(<<u32(Len(elements))>>, u32(Len(elements)).bytes \o Flat(elements))

\* stringToBytes("\0asm")
magic == <<0, 97, 115, 109>>

int32ToBytes(v) ==
  <<v % 256, (v \div 256) % 256, (v \div 65536) % 256, (v \div 16777216) % 256>>

version == int32ToBytes(1)

SECTION_ID_TYPE == 1

SECTION_ID_FUNCTION == 3

SECTION_ID_EXPORT == 7

SECTION_ID_CODE == 10

TYPE_FUNCTION == 96

valtype_i32 == 127

section_CountAsSize(id, contents) ==
  Try(<<contents, u32(contents.bytes[1])>>,
      <<id>> \o u32(contents.bytes[1]).bytes \o contents.bytes)

\* contents: a result
section(id, contents) ==
  Try(<<contents, u32(Len(contents.bytes))>>,
      <<id>> \o u32(Len(contents.bytes)).bytes \o contents.bytes)

functype(paramTypes, resultTypes) ==
  Try(<<vec(Single(paramTypes)), vec(Single(resultTypes))>>,
      <<TYPE_FUNCTION>> \o vec(Single(paramTypes)).bytes
                        \o vec(Single(resultTypes)).bytes)

\* rs: a list of results, the entries of a section
vecOf(rs) == Try(rs \o <<vec(Bytes(rs))>>, vec(Bytes(rs)).bytes)

typesec(functypes) == section(SECTION_ID_TYPE, vecOf(functypes))

funcsec(typeidxs) == section(SECTION_ID_FUNCTION, vecOf(typeidxs))

codesec(codes) == section(SECTION_ID_CODE, vecOf(codes))

exportsec(exports) == section(SECTION_ID_EXPORT, vecOf(exports))

\* func: a result
code(func) ==
  Try(<<func, u32(Len(func.bytes))>>, u32(Len(func.bytes)).bytes \o func.bytes)

\* locals: a list of fragments, body: a fragment
func(locals, body) == Try(<<vec(locals)>>, vec(locals).bytes \o body)

\* TextEncoder().encode(s) for the identifiers of the model
stringToBytes(s) ==
  CASE s = "f" -> <<102>>
    [] s = "go" -> <<103, 111>>
    [] s = "add" -> <<97, 100, 100>>
    [] s = "a" -> <<97>>
    [] s = "b" -> <<98>>
    [] s = "x" -> <<120>>
    [] s = "y" -> <<121>>
    [] s = "main" -> <<109, 97, 105, 110>>
    [] s = "backup" -> <<98, 97, 99, 107, 117, 112>>
    [] s = "choose" -> <<99, 104, 111, 111, 115, 101>>
    [] s = "isZero" -> <<105, 115, 90, 101, 114, 111>>
    [] s = "countTo" -> <<99, 111, 117, 110, 116, 84, 111>>
    [] s = "compare" -> <<99, 111, 109, 112, 97, 114, 101>>
    [] s = "greaterThan" -> <<103, 114, 101, 97, 116, 101, 114, 84, 104, 97, 110>>
    [] s = "lessThan" -> <<108, 101, 115, 115, 84, 104, 97, 110>>
    [] s = "greaterThanOrEq" -> <<103, 114, 101, 97, 116, 101, 114, 84, 104, 97, 110, 79, 114, 69, 113>>
    [] s = "lessThanOrEq" -> <<108, 101, 115, 115, 84, 104, 97, 110, 79, 114, 69, 113>>
    [] s = "eq" -> <<101, 113>>
    [] s = "ne" -> <<110, 101>>
    [] s = "sub" -> <<115, 117, 98>>
    [] s = "and_" -> <<97, 110, 100, 95>>
    [] s = "or_" -> <<111, 114, 95>>
    [] s = "sub3" -> <<115, 117, 98, 51>>
    [] s = "mixed" -> <<109, 105, 120, 101, 100>>
    [] s = "both" -> <<98, 111, 116, 104>>
    [] s = "either" -> <<101, 105, 116, 104, 101, 114>>
    [] OTHER -> <<63>>

name(s) == vec(Single(stringToBytes(s)))

exportdesc_func(idx) == Try(<<funcidx(idx)>>, <<0>> \o funcidx(idx).bytes)

\* exportdesc: a result
export_(nm, exportdesc) ==
  Try(<<exportdesc, name(nm)>>, name(nm).bytes \o exportdesc.bytes)

module_VersionFirst(sections) ==
  Try(sections, version \o magic \o Flat(Bytes(sections)))

\* sections: a list of results
module(sections) == Try(sections, magic \o version \o Flat(Bytes(sections)))

\* Uint8Array.from(): every number is stored modulo 2^8
Uint8Array_from(b) == [i \in 1..Len(b) |-> b[i] % 256]

(***************************************************************************)
(* chapter04.ts / chapter05.ts, instr.js: opcodes                          *)
(***************************************************************************)
instr_i32_const == 65
instr_i32_eq == 70
instr_i32_ne == 71
instr_i32_lt_s == 72
instr_i32_gt_s == 74
instr_i32_le_s == 76
instr_i32_ge_s == 78
instr_i32_add == 106
instr_i32_sub == 107
instr_i32_and == 113
instr_i32_or == 114
instr_local_get == 32
instr_local_set == 33
instr_local_tee == 34
instr_loop == 3
instr_call == 16
instr_drop == 26
instr_if == 4
instr_else == 5
instr_end == 11
instr_br == 12
blocktype_empty == 64
blocktype_i32 == valtype_i32

locals(n, type) == Try(<<u32(n)>>, u32(n).bytes \o <<type>>)

(***************************************************************************)
(* The syntax tree the grammar of chapter06.ts yields.                     *)
(*   Module         funcs: list of FunctionDecl                            *)
(*   FunctionDecl   [k = "func", name, params, body: BlockExpr]            *)
(*   BlockExpr      [k = "blockexpr", stmts, e]                            *)
(*   BlockStatements[k = "blockstmts", stmts]                              *)
(*   LetStatement   [k = "let", id, e]                                     *)
(*   IfStatement    [k = "ifs", c, then, els]  els: <<>> or <<node>>       *)
(*   WhileStatement [k = "while", c, body]                                 *)
(*   ExprStatement  [k = "exprs", e]                                       *)
(*   AssignmentExpr [k = "assign", id, e]                                  *)
(*   Expr_binary    [k = "bin", first, ops, rest]                          *)
(*   PrimaryExpr    [k = "num", digits] | [k = "var", id]                  *)
(*                  | [k = "call", id, args] | IfExpr                      *)
(*   IfExpr         [k = "ife", c, then, els]                              *)
(***************************************************************************)
FuncNode(nm, params, body) ==
  [k |-> "func", name |-> nm, params |-> params, body |-> body]

Block(stmts, e) == [k |-> "blockexpr", stmts |-> stmts, e |-> e]

Stmts(stmts) == [k |-> "blockstmts", stmts |-> stmts]

Let(id, e) == [k |-> "let", id |-> id, e |-> e]

IfS(c, then, els) == [k |-> "ifs", c |-> c, then |-> then, els |-> els]

While(c, body) == [k |-> "while", c |-> c, body |-> body]

ExprS(e) == [k |-> "exprs", e |-> e]

Assign(id, e) == [k |-> "assign", id |-> id, e |-> e]

Bin(first, ops, rest) ==
  [k |-> "bin", first |-> first, ops |-> ops, rest |-> rest]

Num(digits) == [k |-> "num", digits |-> digits]

Var(id) == [k |-> "var", id |-> id]

Call(id, args) == [k |-> "call", id |-> id, args |-> args]

IfE(c, then, els) == [k |-> "ife", c |-> c, then |-> then, els |-> els]

(***************************************************************************)
(* Map<string, ...>: entries in insertion order, each with a name          *)
(***************************************************************************)
MapHas(m, key) == \E i \in 1..Len(m) : m[i].name = key

MapGet(m, key) == m[CHOOSE i \in 1..Len(m) : m[i].name = key]

\* set() of an existing key replaces the value and keeps the key's place
MapSet(m, key, v) ==
  IF MapHas(m, key)
  THEN [i \in 1..Len(m) |-> IF m[i].name = key THEN v ELSE m[i]]
  ELSE Append(m, v)

MapKeys(m) == [i \in 1..Len(m) |-> m[i].name]

\* Array.prototype.indexOf, 0-based, -1 when absent
indexOf(s, x) ==
  IF \E i \in 1..Len(s) : s[i] = x
  THEN (CHOOSE i \in 1..Len(s) : s[i] = x /\ \A j \in 1..(i - 1) : s[j] # x) - 1
  ELSE -1

(***************************************************************************)
(* chapter05.ts: buildSymbolTable                                          *)
(***************************************************************************)
RECURSIVE Params_sym(_, _)
\* Params: every identifier gets the index scopes.at(-1).size
Params_sym(ids, scope) ==
  IF ids = <<>> THEN scope
  ELSE Params_sym(Tail(ids),
         MapSet(scope, Head(ids),
                [name |-> Head(ids), idx |-> Len(scope), what |-> "param"]))

\* LetStatement: the initializer is not visited
LetStatement_sym(n, scope) ==
  MapSet(scope, n.id, [name |-> n.id, idx |-> Len(scope), what |-> "local"])

RECURSIVE symNode(_)
RECURSIVE symList(_)
\* the LetStatement nodes the traversal reaches under n, in visiting order:
\* _default visits the children in order, LetStatement visits none
symNode(n) ==
  CASE n.k = "let" -> <<n>>
    [] n.k = "blockexpr" -> symList(n.stmts) \o symNode(n.e)
    [] n.k = "blockstmts" -> symList(n.stmts)
    [] n.k = "ifs" -> symNode(n.c) \o symNode(n.then) \o symList(n.els)
    [] n.k = "while" -> symNode(n.c) \o symNode(n.body)
    [] n.k = "exprs" -> symNode(n.e)
    [] n.k = "assign" -> symNode(n.e)
    [] n.k = "bin" -> symNode(n.first) \o symList(n.rest)
    [] n.k = "call" -> symList(n.args)
    [] n.k = "ife" -> symNode(n.c) \o symNode(n.then) \o symNode(n.els)
    [] OTHER -> <<>>

symList(nodes) == Flat([i \in 1..Len(nodes) |-> symNode(nodes[i])])

RECURSIVE Lets_sym(_, _)
\* the LetStatement handler applied to the nodes reached, one after another
Lets_sym(lets, scope) ==
  IF lets = <<>> THEN scope
  ELSE Lets_sym(Tail(lets), LetStatement_sym(Head(lets), scope))

\* FunctionDecl: the name is bound to a fresh Map in the module scope
FunctionDecl_sym(f, modScope) ==
  MapSet(modScope, f.name,
         [name |-> f.name,
          scope |-> Lets_sym(symNode(f.body), Params_sym(f.params, <<>>))])

RECURSIVE buildSymbolTable(_)
buildSymbolTable(funcs) ==
  IF funcs = <<>> THEN <<>>
  ELSE FunctionDecl_sym(funcs[Len(funcs)],
                        buildSymbolTable(SubSeq(funcs, 1, Len(funcs) - 1)))

(***************************************************************************)
(* chapter04.ts: resolveSymbol                                             *)
(***************************************************************************)
NoSymbol == [name |-> "", idx |-> 0, what |-> "none"]

resolveSymbol_DefaultZero(identName, scope) ==
  [err |-> "none", id |-> "", bytes |-> <<>>,
   info |-> IF MapHas(scope, identName) THEN MapGet(scope, identName)
            ELSE NoSymbol]

resolveSymbol(identName, scope) ==
  IF MapHas(scope, identName)
  THEN [err |-> "none", id |-> "", bytes |-> <<>>,
        info |-> MapGet(scope, identName)]
  ELSE [err |-> "undeclared identifier", id |-> identName, bytes |-> <<>>,
        info |-> NoSymbol]

(***************************************************************************)
(* chapter06.ts: defineToWasm.  scope is scopes.at(-1), fns the keys of    *)
(* scopes[0].                                                              *)
(***************************************************************************)
RECURSIVE toWasm(_, _, _)

toWasmAll(nodes, scope, fns) ==
  [i \in 1..Len(nodes) |-> toWasm(nodes[i], scope, fns)]

BlockExpr(n, scope, fns) ==
  LET rs == toWasmAll(n.stmts \o <<n.e>>, scope, fns)
  IN Try(rs, Flat(Bytes(rs)))

BlockStatements(n, scope, fns) ==
  LET rs == toWasmAll(n.stmts, scope, fns)
  IN Try(rs, Flat(Bytes(rs)))

LetStatement(n, scope, fns) ==
  LET info == resolveSymbol(n.id, scope)
      e == toWasm(n.e, scope, fns)
      i == localidx(info.info.idx)
  IN Try(<<info, e, i>>, e.bytes \o <<instr_local_set>> \o i.bytes)

IfStatement(n, scope, fns) ==
  LET elseFrag == toWasmAll(n.els, scope, fns)
      c == toWasm(n.c, scope, fns)
      t == toWasm(n.then, scope, fns)
  IN Try(elseFrag \o <<c, t>>,
         c.bytes \o <<instr_if, blocktype_empty>> \o t.bytes
           \o (IF n.els = <<>> THEN <<>>
               ELSE <<instr_else>> \o elseFrag[1].bytes)
           \o <<instr_end>>)

WhileStatement_Br0(n, scope, fns) ==
  LET c == toWasm(n.c, scope, fns)
      b == toWasm(n.body, scope, fns)
  IN Try(<<c, b>>,
         <<instr_loop, blocktype_empty>> \o c.bytes
           \o <<instr_if, blocktype_empty>> \o b.bytes
           \o <<instr_br, 0>> \o <<instr_end, instr_end>>)

WhileStatement_OneEnd(n, scope, fns) ==
  LET c == toWasm(n.c, scope, fns)
      b == toWasm(n.body, scope, fns)
  IN Try(<<c, b>>,
         <<instr_loop, blocktype_empty>> \o c.bytes
           \o <<instr_if, blocktype_empty>> \o b.bytes
           \o <<instr_br, 1>> \o <<instr_end>>)

WhileStatement(n, scope, fns) ==
  LET c == toWasm(n.c, scope, fns)
      b == toWasm(n.body, scope, fns)
  IN Try(<<c, b>>,
         <<instr_loop, blocktype_empty>> \o c.bytes
           \o <<instr_if, blocktype_empty>> \o b.bytes
           \o <<instr_br, 1>> \o <<instr_end, instr_end>>)

ExprStatement(n, scope, fns) ==
  LET e == toWasm(n.e, scope, fns)
  IN Try(<<e>>, e.bytes \o <<instr_drop>>)

binaryOp(op) ==
  CASE op = "+" -> Ok(<<instr_i32_add>>)
    [] op = "-" -> Ok(<<instr_i32_sub>>)
    [] op = "==" -> Ok(<<instr_i32_eq>>)
    [] op = "!=" -> Ok(<<instr_i32_ne>>)
    [] op = "<" -> Ok(<<instr_i32_lt_s>>)
    [] op = "<=" -> Ok(<<instr_i32_le_s>>)
    [] op = ">" -> Ok(<<instr_i32_gt_s>>)
    [] op = ">=" -> Ok(<<instr_i32_ge_s>>)
    [] op = "and" -> Ok(<<instr_i32_and>>)
    [] op = "or" -> Ok(<<instr_i32_or>>)
    [] OTHER -> Fail("Unhandled binary op", op)

\* operand i, then operator i, for every i
Interleave(operands, ops) ==
  [j \in 1..(2 * Len(ops)) |->
     IF j % 2 = 1 THEN operands[(j + 1) \div 2] ELSE ops[j \div 2]]

Expr_binary_OpFirst(n, scope, fns) ==
  LET first == toWasm(n.first, scope, fns)
      operands == toWasmAll(n.rest, scope, fns)
      ops == [i \in 1..Len(n.ops) |-> binaryOp(n.ops[i])]
      rs == <<first>> \o Interleave(ops, operands)
  IN Try(rs, Flat(Bytes(rs)))

Expr_binary(n, scope, fns) ==
  LET first == toWasm(n.first, scope, fns)
      operands == toWasmAll(n.rest, scope, fns)
      ops == [i \in 1..Len(n.ops) |-> binaryOp(n.ops[i])]
      rs == <<first>> \o Interleave(operands, ops)
  IN Try(rs, Flat(Bytes(rs)))

AssignmentExpr(n, scope, fns) ==
  LET info == resolveSymbol(n.id, scope)
      e == toWasm(n.e, scope, fns)
      i == localidx(info.info.idx)
  IN Try(<<info, e, i>>, e.bytes \o <<instr_local_tee>> \o i.bytes)

CallExpr(n, scope, fns) ==
  LET idx == indexOf(fns, n.id)
      args == toWasmAll(n.args, scope, fns)
      i == funcidx(idx)
  IN Try(args \o <<i>>, Flat(Bytes(args)) \o <<instr_call>> \o i.bytes)

IfExpr_NoElse(n, scope, fns) ==
  LET c == toWasm(n.c, scope, fns)
      t == toWasm(n.then, scope, fns)
      e == toWasm(n.els, scope, fns)
  IN Try(<<c, t, e>>,
         c.bytes \o <<instr_if, blocktype_i32>> \o t.bytes
           \o e.bytes \o <<instr_else>> \o <<instr_end>>)

IfExpr(n, scope, fns) ==
  LET c == toWasm(n.c, scope, fns)
      t == toWasm(n.then, scope, fns)
      e == toWasm(n.els, scope, fns)
  IN Try(<<c, t, e>>,
         c.bytes \o <<instr_if, blocktype_i32>> \o t.bytes
           \o <<instr_else>> \o e.bytes \o <<instr_end>>)

PrimaryExpr_var(n, scope, fns) ==
  LET info == resolveSymbol(n.id, scope)
      i == localidx(info.info.idx)
  IN Try(<<info, i>>, <<instr_local_get>> \o i.bytes)

RECURSIVE parseInt(_)
\* parseInt(sourceString, 10) of a string of decimal digits
parseInt(digits) ==
  IF digits = <<>> THEN 0
  ELSE parseInt(SubSeq(digits, 1, Len(digits) - 1)) * 10 + digits[Len(digits)]

number(n) ==
  LET num == parseInt(n.digits)
  IN Try(<<i32(num)>>, <<instr_i32_const>> \o i32(num).bytes)

toWasm(n, scope, fns) ==
  CASE n.k = "blockexpr" -> BlockExpr(n, scope, fns)
    [] n.k = "blockstmts" -> BlockStatements(n, scope, fns)
    [] n.k = "let" -> LetStatement(n, scope, fns)
    [] n.k = "ifs" -> IfStatement(n, scope, fns)
    [] n.k = "while" -> WhileStatement(n, scope, fns)
    [] n.k = "exprs" -> ExprStatement(n, scope, fns)
    [] n.k = "bin" -> Expr_binary(n, scope, fns)
    [] n.k = "assign" -> AssignmentExpr(n, scope, fns)
    [] n.k = "call" -> CallExpr(n, scope, fns)
    [] n.k = "ife" -> IfExpr(n, scope, fns)
    [] n.k = "var" -> PrimaryExpr_var(n, scope, fns)
    [] n.k = "num" -> number(n)

\* FunctionDecl: scopes.push(symbols.get(name)); [blockExpr.toWasm(), end]
FunctionDecl_toWasm(f, syms) ==
  LET b == toWasm(f.body, MapGet(syms, f.name).scope, MapKeys(syms))
  IN Try(<<b>>, b.bytes \o <<instr_end>>)

(***************************************************************************)
(* chapter05.ts: defineFunctionDecls and buildModule                       *)
(***************************************************************************)
IsParam(info) == info.what = "param"

IsLocal(info) == info.what = "local"

\* the FunctionDecl handler of functionDecls: [res, decl]
FunctionDecl_decl(f, syms) ==
  LET localVars == MapGet(syms, f.name).scope
      params == SelectSeq(localVars, IsParam)
      varsCount == Len(SelectSeq(localVars, IsLocal))
      l == locals(varsCount, valtype_i32)
      body == FunctionDecl_toWasm(f, syms)
  IN [res |-> Try(<<l, body>>, <<>>),
      decl |-> [name |-> f.name,
                paramTypes |-> [i \in 1..Len(params) |-> valtype_i32],
                resultType |-> valtype_i32,
                locals |-> <<l.bytes>>,
                body |-> body.bytes]]

buildModule_ExportZero(decls) ==
  LET types == [i \in 1..Len(decls) |->
                  functype(decls[i].paramTypes, <<decls[i].resultType>>)]
      funcs == [i \in 1..Len(decls) |-> typeidx(i - 1)]
      codes == [i \in 1..Len(decls) |->
                  code(func(decls[i].locals, decls[i].body))]
      exports == [i \in 1..Len(decls) |->
                    export_(decls[i].name, exportdesc_func(0))]
      mod == module(<<typesec(types), funcsec(funcs),
                      exportsec(exports), codesec(codes)>>)
  IN Try(types \o funcs \o codes \o exports \o <<mod>>,
         Uint8Array_from(mod.bytes))

buildModule(decls) ==
  LET types == [i \in 1..Len(decls) |->
                  functype(decls[i].paramTypes, <<decls[i].resultType>>)]
      funcs == [i \in 1..Len(decls) |-> typeidx(i - 1)]
      codes == [i \in 1..Len(decls) |->
                  code(func(decls[i].locals, decls[i].body))]
      exports == [i \in 1..Len(decls) |->
                    export_(decls[i].name, exportdesc_func(i - 1))]
      mod == module(<<typesec(types), funcsec(funcs),
                      exportsec(exports), codesec(codes)>>)
  IN Try(types \o funcs \o codes \o exports \o <<mod>>,
         Uint8Array_from(mod.bytes))

RECURSIVE compileDecls(_, _)
\* functionDecls() over the FunctionDecl nodes, in order: [res, decls]
compileDecls(funcs, syms) ==
  IF funcs = <<>> THEN [res |-> Ok(<<>>), decls |-> <<>>]
  ELSE LET before == compileDecls(SubSeq(funcs, 1, Len(funcs) - 1), syms)
           last == FunctionDecl_decl(funcs[Len(funcs)], syms)
       IN [res |-> Try(<<before.res, last.res>>, <<>>),
           decls |-> Append(before.decls, last.decl)]

\* compile(): the bytes, or the first error
compile(source) ==
  IF ~source.ok THEN Fail("syntax error", "")
  ELSE LET syms == buildSymbolTable(source.funcs)
           ds == compileDecls(source.funcs, syms)
       IN Try(<<ds.res, buildModule(ds.decls)>>, buildModule(ds.decls).bytes)

(***************************************************************************)
(* Inputs                                                                  *)
(***************************************************************************)
RECURSIVE SeqsUpTo(_, _)
\* the sequences over S of length at most n
SeqsUpTo(S, n) ==
  IF n = 0 THEN {<<>>}
  ELSE LET shorter == SeqsUpTo(S, n - 1)
       IN shorter \cup {Append(q, x) : q \in shorter, x \in S}

N0 == Num(<<0>>)
N1 == Num(<<1>>)
N2 == Num(<<2>>)

LetIn(v) == IfE(N1, Block(<<Let(v, N1)>>, Var(v)), Block(<<>>, N0))

\* statements that declare and use variables at every place of the grammar
StmtPool ==
  { Let("x", N1), Let("y", N2), Let("a", N1),
    IfS(N1, Stmts(<<Let("x", N1)>>), <<>>),
    IfS(N1, Stmts(<<>>), <<Stmts(<<Let("y", N1)>>)>>),
    IfS(N0, Stmts(<<>>), <<IfS(N1, Stmts(<<Let("x", N2)>>), <<>>)>>),
    While(N0, Stmts(<<Let("y", N1)>>)),
    ExprS(LetIn("x")),
    Let("y", LetIn("x")),
    ExprS(Assign("y", LetIn("x"))),
    ExprS(Assign("x", Num(<<0, 7>>))),
    ExprS(Bin(Var("y"), <<"+">>, <<Num(<<6, 4>>)>>)) }

ResultPool == { Var("x"), Var("a"), Var("f"), N1 }

\* one function f, its parameters, statements and result drawn freely
DeclSources ==
  { [ok |-> TRUE, direct |-> FALSE,
     funcs |-> <<FuncNode("f", ps, Block(st, r))>>] :
      ps \in SeqsUpTo({"a", "b"}, MaxParams),
      st \in SeqsUpTo(StmtPool, MaxStmts),
      r \in ResultPool }

\* functions that call one another, forwards, backwards and themselves
FuncPool ==
  { FuncNode("f", <<>>, Block(<<>>, N1)),
    FuncNode("f", <<"a">>, Block(<<>>, Call("go", <<Var("a")>>))),
    FuncNode("go", <<"a">>, Block(<<>>, Call("go", <<N1>>))),
    FuncNode("go", <<>>, Block(<<>>, Call("f", <<>>))),
    FuncNode("add", <<"a", "b">>,
             Block(<<>>, Bin(Var("a"), <<"+">>, <<Var("b")>>))),
    FuncNode("go", <<>>, Block(<<>>, Call("add", <<N1, N2>>))),
    FuncNode("f", <<>>, Block(<<>>, Call("x", <<>>))),
    FuncNode("go", <<"a">>, Block(<<>>, Var("b"))) }

CallSources ==
  { [ok |-> TRUE, direct |-> FALSE, funcs |-> fs] :
      fs \in SeqsUpTo(FuncPool, MaxFuncs) }

\* a function whose code does not fit a one-byte size
BigBody ==
  FuncNode("main", <<>>,
           Block([i \in 1..3 |->
                    ExprS(Bin(N1, [j \in 1..16 |-> "+"], [j \in 1..16 |-> N2]))],
                 N1))

OtherSources ==
  { [ok |-> FALSE, direct |-> FALSE, funcs |-> <<>>],
    [ok |-> TRUE, direct |-> FALSE, funcs |-> <<BigBody>>],
    [ok |-> TRUE, direct |-> FALSE,
     funcs |-> <<FuncNode("f", <<>>, Block(<<>>, N1)), BigBody>>] }

Decrement(v) == ExprS(Assign(v, Bin(Var(v), <<"-">>, <<N1>>)))

\* a while in an if in a while, with a let in the else
NestedLoops ==
  FuncNode("f", <<"a", "b">>,
           Block(<<While(Var("a"),
                         Stmts(<<IfS(Var("b"),
                                     Stmts(<<While(Var("b"),
                                                   Stmts(<<Decrement("b")>>))>>),
                                     <<Stmts(<<Let("x", N1)>>)>>),
                                 Decrement("a")>>))>>,
                 Var("a")))

\* an else-if chain, a while whose condition is an if-expression, and an
\* if-expression with a while in its first block
ElseIfChain ==
  FuncNode("go", <<"a">>,
           Block(<<IfS(Var("a"), Stmts(<<While(N0, Stmts(<<>>))>>),
                       <<IfS(N1, Stmts(<<ExprS(Assign("a", N2))>>),
                             <<Stmts(<<>>)>>)>>),
                   While(IfE(Var("a"), Block(<<>>, N0), Block(<<>>, N1)),
                         Stmts(<<ExprS(Assign("a", N1))>>))>>,
                 IfE(Var("a"), Block(<<While(N0, Stmts(<<>>))>>, N1),
                     IfE(N0, Block(<<>>, N1), Block(<<>>, N2)))))

NestSources ==
  { [ok |-> TRUE, direct |-> FALSE, funcs |-> <<NestedLoops>>],
    [ok |-> TRUE, direct |-> FALSE, funcs |-> <<ElseIfChain>>] }

Sources == DeclSources \cup CallSources \cup OtherSources \cup NestSources

\* FunctionDecl records handed to buildModule directly (chapter05.ts:250-265)
DeclPool ==
  { [name |-> "main", paramTypes |-> <<>>, resultType |-> valtype_i32,
     locals |-> <<<<1, valtype_i32>>>>,
     body |-> <<instr_i32_const, 42, instr_call, 1, instr_end>>],
    [name |-> "backup", paramTypes |-> <<valtype_i32>>,
     resultType |-> valtype_i32, locals |-> <<>>,
     body |-> <<instr_i32_const, 43, instr_end>>],
    [name |-> "add", paramTypes |-> <<valtype_i32, valtype_i32>>,
     resultType |-> valtype_i32, locals |-> <<>>,
     body |-> <<instr_local_get, 0, instr_local_get, 1, instr_i32_add,
                instr_end>>] }

(***************************************************************************)
(* Programs that are compiled, loaded and run (chapter06.ts:226-303)       *)
(***************************************************************************)
Choose ==
  FuncNode("choose", <<"x">>,
           Block(<<>>, IfE(Var("x"), Block(<<>>, Num(<<4, 2>>)),
                           Block(<<>>, Num(<<4, 3>>)))))

IsZero ==
  FuncNode("isZero", <<"x">>,
           Block(<<Let("result", IfE(Var("x"), Block(<<>>, N0),
                                     Block(<<>>, N1)))>>,
                 Var("result")))

Increment == ExprS(Assign("x", Bin(Var("x"), <<"+">>, <<N1>>)))

\* chapter06.ts:270-276
CountTo ==
  FuncNode("countTo", <<"n">>,
           Block(<<Let("x", N0),
                   While(Bin(Var("x"), <<"<">>, <<Var("n")>>),
                         Stmts(<<Increment>>))>>,
                 Var("x")))

\* chapter06.ts:285-291
CountToGuarded ==
  FuncNode("countTo", <<"n">>,
           Block(<<Let("x", N0),
                   While(Bin(Var("x"), <<"<">>, <<Var("n")>>),
                         Stmts(<<IfS(Bin(Var("x"), <<"<">>, <<Num(<<6, 2>>)>>),
                                     Stmts(<<Increment>>), <<>>)>>))>>,
                 Var("x")))

Compare ==
  FuncNode("compare", <<"a", "b">>,
           Block(<<>>,
                 IfE(Bin(Var("a"), <<"<">>, <<Var("b")>>),
                     Block(<<>>, Bin(N0, <<"-">>, <<N1>>)),
                     IfE(Bin(Var("a"), <<">">>, <<Var("b")>>),
                         Block(<<>>, N1), Block(<<>>, N0)))))

Binary(nm, op) ==
  FuncNode(nm, <<"a", "b">>, Block(<<>>, Bin(Var("a"), <<op>>, <<Var("b")>>)))

Chain(nm, op1, op2) ==
  FuncNode(nm, <<"a", "b", "x">>,
           Block(<<>>, Bin(Var("a"), <<op1, op2>>, <<Var("b"), Var("x")>>)))

\* the right operand of a logical operator assigns x
Logical(nm, op) ==
  FuncNode(nm, <<"a">>,
           Block(<<Let("x", N0),
                   ExprS(Bin(Var("a"), <<op>>,
                             <<IfE(N1, Block(<<>>, Assign("x", N1)),
                                   Block(<<>>, N0))>>))>>,
                 Var("x")))

Program(fs) == [ok |-> TRUE, direct |-> FALSE, funcs |-> fs]

RunSources ==
  { Program(<<Choose>>), Program(<<IsZero>>), Program(<<CountTo>>),
    Program(<<CountToGuarded, Compare>>),
    Program(<<Binary("greaterThan", ">"), Binary("lessThan", "<"),
              Binary("greaterThanOrEq", ">="), Binary("lessThanOrEq", "<="),
              Binary("eq", "=="), Binary("and_", "and"), Binary("or_", "or")>>),
    Program(<<Binary("ne", "!="), Binary("add", "+"), Binary("sub", "-")>>),
    Program(<<Chain("sub3", "-", "-"), Chain("mixed", "<", "+")>>),
    Program(<<Logical("both", "and"), Logical("either", "or")>>),
    Program(<<FuncNode("main", <<>>, Block(<<>>, Call("add", <<N1, N2>>))),
              Binary("add", "+")>>) }

\* the numbers an export is called with
ArgPool == (-1..MaxArg) \cup {10, 62, 63}

NoErr == [err |-> "none", id |-> ""]

(***************************************************************************)
(* compile() step by step (chapter06.ts:209-222)                           *)
(***************************************************************************)
Idle == /\ instance = <<>>
        /\ entry = <<>>
        /\ frames = <<>>
        /\ result = <<>>

InitCompile ==
  /\ src \in Sources
  /\ pc = "match"
  /\ symbols = <<>>
  /\ symAt = 0
  /\ functionDecls = <<>>
  /\ err = NoErr
  /\ out = <<>>
  /\ Idle

\* a caller of buildModule with its own records
InitBuild ==
  /\ src = [ok |-> TRUE, direct |-> TRUE, funcs |-> <<>>]
  /\ pc = "decls"
  /\ symbols = <<>>
  /\ symAt = 0
  /\ functionDecls \in SeqsUpTo(DeclPool, 2)
  /\ err = NoErr
  /\ out = <<>>
  /\ Idle

\* compile() of a program that is run afterwards
InitRun ==
  /\ src \in RunSources
  /\ pc = "match"
  /\ symbols = <<>>
  /\ symAt = 0
  /\ functionDecls = <<>>
  /\ err = NoErr
  /\ out = <<>>
  /\ Idle

Init == InitCompile \/ InitBuild

NFuncs == IF src.direct THEN Len(functionDecls) ELSE Len(src.funcs)

Throw(r) ==
  /\ pc' = "error"
  /\ err' = [err |-> r.err, id |-> r.id]

\* wafer.match(source); throw when it did not succeed
Match ==
  /\ pc = "match"
  /\ IF src.ok THEN pc' = "symbols" /\ err' = err
     ELSE Throw(Fail("syntax error", ""))
  /\ UNCHANGED <<src, symbols, symAt, functionDecls, out, instance, entry, frames, result>>

\* buildSymbolTable visits the next FunctionDecl
SymFunctionDecl ==
  /\ pc = "symbols"
  /\ symAt < Len(src.funcs)
  /\ symbols' = FunctionDecl_sym(src.funcs[symAt + 1], symbols)
  /\ symAt' = symAt + 1
  /\ UNCHANGED <<src, pc, functionDecls, err, out, instance, entry, frames, result>>

\* buildSymbolTable returns scopes[0]
SymReturn ==
  /\ pc = "symbols"
  /\ symAt = Len(src.funcs)
  /\ pc' = "decls"
  /\ UNCHANGED <<src, symbols, symAt, functionDecls, err, out, instance, entry, frames, result>>

compileStep_SkipFailed(decls, r) ==
  [failed |-> FALSE, decls |-> Append(decls, r.decl)]

\* what functionDecls() does with the outcome of one FunctionDecl handler
compileStep(decls, r) ==
  IF Failed(r.res) THEN [failed |-> TRUE, decls |-> decls]
  ELSE [failed |-> FALSE, decls |-> Append(decls, r.decl)]

\* functionDecls() visits the next FunctionDecl
FunctionDecls ==
  /\ pc = "decls"
  /\ ~src.direct
  /\ Len(functionDecls) < Len(src.funcs)
  /\ LET r == FunctionDecl_decl(src.funcs[Len(functionDecls) + 1], symbols)
         s == compileStep(functionDecls, r)
     IN /\ functionDecls' = s.decls
        /\ IF s.failed THEN Throw(r.res) ELSE pc' = pc /\ err' = err
  /\ UNCHANGED <<src, symbols, symAt, out, instance, entry, frames, result>>

\* return buildModule(functionDecls)
BuildModule ==
  /\ pc = "decls"
  /\ Len(functionDecls) = NFuncs
  /\ LET r == buildModule(functionDecls)
     IN IF Failed(r) THEN Throw(r) /\ out' = out
        ELSE pc' = "done" /\ out' = r.bytes /\ err' = err
  /\ UNCHANGED <<src, symbols, symAt, functionDecls, instance, entry, frames, result>>

Next ==
  \/ Match
  \/ SymFunctionDecl
  \/ SymReturn
  \/ FunctionDecls
  \/ BuildModule

Spec == Init /\ [][Next]_vars

(***************************************************************************)
(* Reading a module back: the layout of the binary format, followed by     *)
(* the counts it carries.                                                  *)
(***************************************************************************)
At(b, p) == IF p \in 1..Len(b) THEN b[p] ELSE -1

\* position after the functype at p: 0x60, vec(params), vec(results)
TypeEntryEnd(b, p) ==
  LET np == At(b, p + 1)
      nr == At(b, p + 2 + np)
  IN p + 2 + np + 1 + nr

\* position after the type index at p
FuncEntryEnd(b, p) == p + 1

\* position after the export at p: vec(name bytes), kind, index
ExportEntryEnd(b, p) == p + 1 + At(b, p) + 2

\* position after the code entry at p: size, then size bytes
CodeEntryEnd(b, p) == p + 1 + At(b, p)

EntryEnd(id, b, p) ==
  CASE id = SECTION_ID_TYPE -> TypeEntryEnd(b, p)
    [] id = SECTION_ID_FUNCTION -> FuncEntryEnd(b, p)
    [] id = SECTION_ID_EXPORT -> ExportEntryEnd(b, p)
    [] id = SECTION_ID_CODE -> CodeEntryEnd(b, p)
    [] OTHER -> Len(b) + 2

\* the section at p read by its entry count: where each entry starts
\* (starts[n + 1] is the position after the last entry)
SectionAt(b, p) ==
  LET n == IF At(b, p + 2) \in 0..Len(b) THEN At(b, p + 2) ELSE 0
      starts[i \in 1..(n + 1)] ==
        IF i = 1 THEN p + 3
        ELSE LET q == starts[i - 1]
             IN IF q \in 1..Len(b) THEN EntryEnd(At(b, p), b, q)
                ELSE Len(b) + 2
  IN [id |-> At(b, p), size |-> At(b, p + 1), count |-> At(b, p + 2),
      at |-> p + 2, starts |-> starts, end |-> starts[n + 1]]

\* the four sections after the 8-byte header, each starting where the
\* entries of the one before it end
Decode(b) ==
  LET t == SectionAt(b, 9)
      f == SectionAt(b, t.end)
      e == SectionAt(b, f.end)
      c == SectionAt(b, e.end)
  IN <<t, f, e, c>>

RECURSIVE Walk(_, _)
\* the sections from p on, each as long as its size field says
Walk(b, p) ==
  IF p > Len(b) THEN <<>>
  ELSE <<[id |-> At(b, p), size |-> At(b, p + 1), at |-> p + 2]>>
         \o (IF At(b, p + 1) < 0 THEN <<>> ELSE Walk(b, p + 2 + At(b, p + 1)))

Slice(b, from, to) == [i \in 1..(to - from + 1) |-> At(b, from + i - 1)]

(***************************************************************************)
(* The target stack machine.  loadMod (chapter02.ts:74-77) hands the bytes *)
(* to the WebAssembly engine and returns the exports; the engine itself is *)
(* not part of the repository.  Its behaviour on the instructions of       *)
(* instr.js is modelled here on the bytes of `out`: every immediate the    *)
(* compiler emits is a single byte.  The engine's validation of a module   *)
(* is not modelled; a step that has no meaning (missing operand, index out *)
(* of range, unknown opcode) ends the invocation with a trap.              *)
(***************************************************************************)
\* i32.add on signed 32-bit numbers: the sum modulo 2^32
Add32(a, b) ==
  IF b > 0 /\ a > 2147483647 - b
  THEN (a - 2147483647 - 1) + (b - 2147483647 - 1)
  ELSE IF b < 0 /\ a < (-2147483647 - 1) - b
       THEN (a + 2147483647 + 1) + (b + 2147483647 + 1)
       ELSE a + b

\* i32.sub: the difference modulo 2^32
Sub32(a, b) ==
  IF b # -2147483647 - 1 THEN Add32(a, 0 - b)
  ELSE IF a >= 0 THEN a - 2147483647 - 1 ELSE (a + 2147483647) + 1

\* bit i of the two's complement of a
Bit(a, i) ==
  IF i = 31 THEN (IF a < 0 THEN 1 ELSE 0)
  ELSE IF a >= 0 THEN (a \div (2 ^ i)) % 2
       ELSE 1 - (((0 - (a + 1)) \div (2 ^ i)) % 2)

RECURSIVE BitSum(_, _, _, _, _)
\* the bits lo..hi (below the sign) of i32.and / i32.or of a and b
BitSum(a, b, isAnd, lo, hi) ==
  IF lo = hi
  THEN (2 ^ lo) * (IF isAnd THEN Bit(a, lo) * Bit(b, lo)
                   ELSE IF Bit(a, lo) + Bit(b, lo) > 0 THEN 1 ELSE 0)
  ELSE LET m == (lo + hi) \div 2
       IN BitSum(a, b, isAnd, lo, m) + BitSum(a, b, isAnd, m + 1, hi)

Bitwise(a, b, isAnd) ==
  LET sign == IF isAnd THEN a < 0 /\ b < 0 ELSE a < 0 \/ b < 0
      low == BitSum(a, b, isAnd, 0, 30)
  IN IF sign THEN (low - 2147483647) - 1 ELSE low

Bool(c) == IF c THEN 1 ELSE 0

IsBinary(op) ==
  op \in {instr_i32_eq, instr_i32_ne, instr_i32_lt_s, instr_i32_gt_s,
          instr_i32_le_s, instr_i32_ge_s, instr_i32_add, instr_i32_sub,
          instr_i32_and, instr_i32_or}

\* the value op leaves for the operands a (pushed first) and b
Apply(op, a, b) ==
  CASE op = instr_i32_eq -> Bool(a = b)
    [] op = instr_i32_ne -> Bool(a # b)
    [] op = instr_i32_lt_s -> Bool(a < b)
    [] op = instr_i32_gt_s -> Bool(a > b)
    [] op = instr_i32_le_s -> Bool(a <= b)
    [] op = instr_i32_ge_s -> Bool(a >= b)
    [] op = instr_i32_add -> Add32(a, b)
    [] op = instr_i32_sub -> Sub32(a, b)
    [] op = instr_i32_and -> Bitwise(a, b, TRUE)
    [] op = instr_i32_or -> Bitwise(a, b, FALSE)

\* instructions followed by one immediate byte
HasImmediate(op) ==
  op \in {instr_i32_const, instr_local_get, instr_local_set, instr_local_tee,
          instr_call, instr_br, instr_if, instr_loop}

\* a one-byte signed LEB128 number
Signed7(byte) == IF byte >= 64 THEN byte - 128 ELSE byte

RECURSIVE Scan(_, _, _, _)
\* from the instruction at p on: the position of the `end` that closes the
\* block p lies in, or of its `else` when stopElse; 0 when there is none
Scan(b, p, depth, stopElse) ==
  LET op == At(b, p)
  IN IF p > Len(b) \/ p < 1 THEN 0
     ELSE IF op = instr_end
          THEN IF depth = 0 THEN p ELSE Scan(b, p + 1, depth - 1, stopElse)
     ELSE IF op = instr_else
          THEN IF depth = 0 /\ stopElse THEN p
               ELSE Scan(b, p + 1, depth, stopElse)
     ELSE IF op \in {instr_if, instr_loop}
          THEN Scan(b, p + 2, depth + 1, stopElse)
     ELSE Scan(b, p + (IF HasImmediate(op) THEN 2 ELSE 1), depth, stopElse)

RECURSIVE LocalCount(_, _, _)
\* the locals declared by n declarations (count, type) from p on
LocalCount(b, p, n) ==
  IF n <= 0 THEN 0 ELSE At(b, p) + LocalCount(b, p + 2, n - 1)

\* the functions of a module: parameters, locals, first and last
\* instruction of the body
Functions(b) ==
  LET d == Decode(b)
  IN [i \in 1..d[2].count |->
        LET t == d[1].starts[At(b, d[2].starts[i]) + 1]
            c == d[4].starts[i]
            nd == At(b, c + 1)
        IN [nparams |-> At(b, t + 1),
            nlocals |-> LocalCount(b, c + 2, nd),
            start |-> c + 2 + 2 * nd,
            end |-> d[4].starts[i + 1] - 1]]

\* the function an export names: vec(name bytes), kind, index
ExportedFunction(b, j) ==
  LET e == Decode(b)[3].starts[j]
  IN At(b, e + At(b, e) + 2)

Running == pc = "run" /\ frames # <<>>

Cur == frames[Len(frames)]

Op == At(out, Cur.ip)

Imm == At(out, Cur.ip + 1)

SetCur(fr) == [frames EXCEPT ![Len(frames)] = fr]

Push(fr, v, n) == [fr EXCEPT !.stack = Append(fr.stack, v), !.ip = fr.ip + n]

Pop(stack, n) == SubSeq(stack, 1, Len(stack) - n)

Returned(v) == <<[trap |-> FALSE, v |-> v]>>

Trapped == <<[trap |-> TRUE, v |-> 0]>>

Trap ==
  /\ pc' = "trapped"
  /\ frames' = <<>>
  /\ result' = Trapped

Continue(fs) ==
  /\ frames' = fs
  /\ pc' = pc
  /\ result' = result

Frozen == UNCHANGED <<src, symbols, symAt, functionDecls, err, out, instance, entry>>

\* loadMod(bytes): instantiate the module
LoadMod ==
  /\ pc = "done"
  /\ pc' = "loaded"
  /\ instance' = Functions(out)
  /\ UNCHANGED <<src, symbols, symAt, functionDecls, err, out, entry, frames, result>>

\* mod.name(args): call of an export with numbers as arguments
Invoke ==
  /\ pc = "loaded"
  /\ \E j \in 1..Len(instance) :
       LET fn == ExportedFunction(out, j)
       IN /\ fn + 1 \in 1..Len(instance)
          /\ \E args \in [1..instance[fn + 1].nparams -> ArgPool] :
               /\ entry' = [fn |-> fn, args |-> args]
               /\ frames' = <<[fn |-> fn, ip |-> instance[fn + 1].start,
                               locals |-> args \o [i \in 1..instance[fn + 1].nlocals |-> 0],
                               stack |-> <<>>, labels |-> <<>>]>>
  /\ pc' = "run"
  /\ UNCHANGED <<src, symbols, symAt, functionDecls, err, out, instance, result>>

\* i32.const n
ExecConst ==
  /\ Running
  /\ Op = instr_i32_const
  /\ Continue(SetCur(Push(Cur, Signed7(Imm), 2)))
  /\ Frozen

\* local.get / local.set / local.tee
ExecLocal ==
  /\ Running
  /\ Op \in {instr_local_get, instr_local_set, instr_local_tee}
  /\ IF Imm + 1 \notin 1..Len(Cur.locals) THEN Trap
     ELSE IF Op = instr_local_get
          THEN Continue(SetCur(Push(Cur, Cur.locals[Imm + 1], 2)))
     ELSE IF Cur.stack = <<>> THEN Trap
     ELSE LET v == Cur.stack[Len(Cur.stack)]
          IN Continue(SetCur(
               [Cur EXCEPT !.locals[Imm + 1] = v,
                           !.stack = IF Op = instr_local_set
                                     THEN Pop(Cur.stack, 1) ELSE Cur.stack,
                           !.ip = Cur.ip + 2]))
  /\ Frozen

\* the comparisons and the arithmetic; an opcode the machine does not know
ExecNumeric ==
  /\ Running
  /\ ~HasImmediate(Op)
  /\ Op \notin {instr_drop, instr_else, instr_end}
  /\ IF ~IsBinary(Op) \/ Len(Cur.stack) < 2 THEN Trap
     ELSE LET a == Cur.stack[Len(Cur.stack) - 1]
              b == Cur.stack[Len(Cur.stack)]
          IN Continue(SetCur(
               [Cur EXCEPT !.stack = Append(Pop(Cur.stack, 2), Apply(Op, a, b)),
                           !.ip = Cur.ip + 1]))
  /\ Frozen

\* drop
ExecDrop ==
  /\ Running
  /\ Op = instr_drop
  /\ IF Cur.stack = <<>> THEN Trap
     ELSE Continue(SetCur([Cur EXCEPT !.stack = Pop(Cur.stack, 1),
                                      !.ip = Cur.ip + 1]))
  /\ Frozen

Arity(blocktype) == IF blocktype = blocktype_empty THEN 0 ELSE 1

\* loop bt: a label whose branches go back to the first instruction inside
ExecLoop ==
  /\ Running
  /\ Op = instr_loop
  /\ Continue(SetCur(
       [Cur EXCEPT !.labels = Append(Cur.labels,
                                [loop |-> TRUE, cont |-> Cur.ip + 2,
                                 height |-> Len(Cur.stack), arity |-> 0]),
                   !.ip = Cur.ip + 2]))
  /\ Frozen

\* if bt: the first branch when the operand is not 0, else the one after
\* `else` if there is one
ExecIf ==
  /\ Running
  /\ Op = instr_if
  /\ LET end == Scan(out, Cur.ip + 2, 0, FALSE)
         els == Scan(out, Cur.ip + 2, 0, TRUE)
         lbl == [loop |-> FALSE, cont |-> end + 1,
                 height |-> Len(Cur.stack) - 1, arity |-> Arity(Imm)]
     IN IF Cur.stack = <<>> \/ end = 0 THEN Trap
        ELSE IF Cur.stack[Len(Cur.stack)] # 0
             THEN Continue(SetCur(
                    [Cur EXCEPT !.stack = Pop(Cur.stack, 1),
                                !.labels = Append(Cur.labels, lbl),
                                !.ip = Cur.ip + 2]))
        ELSE IF els < end
             THEN Continue(SetCur(
                    [Cur EXCEPT !.stack = Pop(Cur.stack, 1),
                                !.labels = Append(Cur.labels, lbl),
                                !.ip = els + 1]))
        ELSE Continue(SetCur(
               [Cur EXCEPT !.stack = Pop(Cur.stack, 1), !.ip = end + 1]))
  /\ Frozen

\* else, reached at the end of the first branch: leave the block
ExecElse ==
  /\ Running
  /\ Op = instr_else
  /\ IF Cur.labels = <<>> THEN Trap
     ELSE Continue(SetCur(
            [Cur EXCEPT !.labels = Pop(Cur.labels, 1),
                        !.ip = Cur.labels[Len(Cur.labels)].cont]))
  /\ Frozen

\* end of a block
ExecEnd ==
  /\ Running
  /\ Op = instr_end
  /\ Cur.labels # <<>>
  /\ Continue(SetCur([Cur EXCEPT !.labels = Pop(Cur.labels, 1),
                                 !.ip = Cur.ip + 1]))
  /\ Frozen

\* br l: to the l-th enclosing label, counted from the innermost
ExecBr ==
  /\ Running
  /\ Op = instr_br
  /\ IF Imm + 1 \notin 1..Len(Cur.labels) THEN Trap
     ELSE LET at == Len(Cur.labels) - Imm
              lbl == Cur.labels[at]
              kept == SubSeq(Cur.stack, 1, lbl.height)
                        \o SubSeq(Cur.stack, Len(Cur.stack) - lbl.arity + 1,
                                  Len(Cur.stack))
          IN IF Len(Cur.stack) < lbl.height + lbl.arity THEN Trap
             ELSE Continue(SetCur(
                    [Cur EXCEPT !.stack = kept,
                                !.labels = SubSeq(Cur.labels, 1,
                                             IF lbl.loop THEN at ELSE at - 1),
                                !.ip = lbl.cont]))
  /\ Frozen

\* call f: the arguments leave the caller's stack for the callee's locals
ExecCall ==
  /\ Running
  /\ Op = instr_call
  /\ Len(frames) < MaxCallDepth
  /\ IF Imm + 1 \notin 1..Len(instance) THEN Trap
     ELSE LET f == instance[Imm + 1]
          IN IF Len(Cur.stack) < f.nparams THEN Trap
             ELSE Continue(Append(
                    SetCur([Cur EXCEPT !.stack = Pop(Cur.stack, f.nparams),
                                       !.ip = Cur.ip + 2]),
                    [fn |-> Imm, ip |-> f.start,
                     locals |-> SubSeq(Cur.stack, Len(Cur.stack) - f.nparams + 1,
                                       Len(Cur.stack))
                                  \o [i \in 1..f.nlocals |-> 0],
                     stack |-> <<>>, labels |-> <<>>]))
  /\ Frozen

\* the end of a function body: its value goes to the caller
ExecReturn ==
  /\ Running
  /\ Op = instr_end
  /\ Cur.labels = <<>>
  /\ IF Cur.stack = <<>> THEN Trap
     ELSE LET v == Cur.stack[Len(Cur.stack)]
          IN IF Len(frames) = 1
             THEN /\ pc' = "returned"
                  /\ frames' = <<>>
                  /\ result' = Returned(v)
             ELSE LET caller == frames[Len(frames) - 1]
                  IN Continue(Append(Pop(frames, 2),
                       [caller EXCEPT !.stack = Append(caller.stack, v)]))
  /\ Frozen

Step ==
  \/ ExecConst
  \/ ExecLocal
  \/ ExecNumeric
  \/ ExecDrop
  \/ ExecLoop
  \/ ExecIf
  \/ ExecElse
  \/ ExecEnd
  \/ ExecBr
  \/ ExecCall
  \/ ExecReturn

NextRun == Next \/ LoadMod \/ Invoke \/ Step

SpecRun == InitRun /\ [][NextRun]_vars

\* the programs with loops, and one with a call
InitLoops ==
  /\ InitRun
  /\ src \in { Program(<<CountTo>>), Program(<<CountToGuarded, Compare>>),
               Program(<<FuncNode("main", <<>>,
                                  Block(<<>>, Call("add", <<N1, N2>>))),
                         Binary("add", "+")>>) }

\* the engine runs an invocation until it returns or traps
SpecLoops == InitLoops /\ [][NextRun]_vars /\ WF_vars(Step)

(***************************************************************************)
(* Notions the properties speak of                                         *)
(***************************************************************************)
RECURSIVE LetIds(_)
RECURSIVE LetIdsOf(_)
\* the names of all let statements under a node, in textual order
LetIds(n) ==
  CASE n.k = "let" -> <<n.id>> \o LetIds(n.e)
    [] n.k = "blockexpr" -> LetIdsOf(n.stmts) \o LetIds(n.e)
    [] n.k = "blockstmts" -> LetIdsOf(n.stmts)
    [] n.k = "ifs" -> LetIds(n.c) \o LetIds(n.then) \o LetIdsOf(n.els)
    [] n.k = "while" -> LetIds(n.c) \o LetIds(n.body)
    [] n.k = "exprs" -> LetIds(n.e)
    [] n.k = "assign" -> LetIds(n.e)
    [] n.k = "bin" -> LetIds(n.first) \o LetIdsOf(n.rest)
    [] n.k = "call" -> LetIdsOf(n.args)
    [] n.k = "ife" -> LetIds(n.c) \o LetIds(n.then) \o LetIds(n.els)
    [] OTHER -> <<>>

LetIdsOf(nodes) == Flat([i \in 1..Len(nodes) |-> LetIds(nodes[i])])

RECURSIVE Uses(_)
RECURSIVE UsesOf(_)
\* the let statements, assignments and variable references under a node
Uses(n) ==
  CASE n.k = "let" -> {n} \cup Uses(n.e)
    [] n.k = "assign" -> {n} \cup Uses(n.e)
    [] n.k = "var" -> {n}
    [] n.k = "blockexpr" -> UsesOf(n.stmts) \cup Uses(n.e)
    [] n.k = "blockstmts" -> UsesOf(n.stmts)
    [] n.k = "ifs" -> Uses(n.c) \cup Uses(n.then) \cup UsesOf(n.els)
    [] n.k = "while" -> Uses(n.c) \cup Uses(n.body)
    [] n.k = "exprs" -> Uses(n.e)
    [] n.k = "bin" -> Uses(n.first) \cup UsesOf(n.rest)
    [] n.k = "call" -> UsesOf(n.args)
    [] n.k = "ife" -> Uses(n.c) \cup Uses(n.then) \cup Uses(n.els)
    [] OTHER -> {}

UsesOf(nodes) == UNION {Uses(nodes[i]) : i \in 1..Len(nodes)}

Distinct(s) == \A i, j \in 1..Len(s) : i # j => s[i] # s[j]

\* buildSymbolTable has returned
SymbolsBuilt == ~src.direct /\ src.ok /\ pc \in {"decls", "done", "error"}

\* function i of the source is the only one of its name
OnlyOfItsName(i) ==
  \A j \in 1..Len(src.funcs) : j # i => src.funcs[j].name # src.funcs[i].name

ScopeOf(i) == MapGet(symbols, src.funcs[i].name).scope

Undeclared(i) == {u \in Uses(src.funcs[i].body) : ~MapHas(ScopeOf(i), u.id)}

(***************************************************************************)
(* C1: a function with p parameters and l let statements, all names        *)
(* distinct, has a scope of exactly p+l symbols: parameter i has index i   *)
(* and kind param, let j (in textual order) has index p+j and kind local.  *)
(***************************************************************************)
C1_IndexAssignment ==
  SymbolsBuilt =>
    \A i \in 1..Len(src.funcs) :
      LET f == src.funcs[i]
          names == f.params \o LetIds(f.body)
      IN (OnlyOfItsName(i) /\ Distinct(names)) =>
           /\ Len(ScopeOf(i)) = Len(names)
           /\ {ScopeOf(i)[j] : j \in 1..Len(ScopeOf(i))} =
                {[name |-> names[j], idx |-> j - 1,
                  what |-> IF j <= Len(f.params) THEN "param" ELSE "local"] :
                   j \in 1..Len(names)}

C3_CallIndex ==
  (pc = "done" /\ ~src.direct) =>
    \A i \in 1..Len(src.funcs) :
      LET f == src.funcs[i]
          b == functionDecls[i].body
      IN (f.body.e.k = "call"
          /\ \E j \in 1..Len(src.funcs) : src.funcs[j].name = f.body.e.id) =>
           /\ b[Len(b) - 2] = instr_call
           /\ \E j \in 1..Len(src.funcs) :
                /\ src.funcs[j].name = f.body.e.id
                /\ functionDecls[j].name = f.body.e.id
                /\ b[Len(b) - 1] = j - 1

(***************************************************************************)
(* C4: in a module buildModule returns every section's length field is     *)
(* the number of bytes of its contents, every code entry's size is the     *)
(* number of bytes of its locals vector and body, and every vector's count *)
(* is the number of its elements.                                          *)
(***************************************************************************)
C4_SelfConsistent ==
  pc = "done" =>
    LET d == Decode(out)
        n == Len(functionDecls)
    IN /\ \A s \in 1..4 :
            /\ d[s].size = d[s].end - d[s].at
            /\ d[s].count = n
       /\ d[4].end = Len(out) + 1
       /\ \A i \in 1..n :
            LET fd == functionDecls[i]
                t == d[1].starts[i]
                np == Len(fd.paramTypes)
                e == d[3].starts[i]
                c == d[4].starts[i]
            IN /\ At(out, t + 1) = np
               /\ Slice(out, t + 2, t + 1 + np) = fd.paramTypes
               /\ At(out, t + 2 + np) = 1
               /\ At(out, e) = Len(stringToBytes(fd.name))
               /\ At(out, c + 1) = Len(fd.locals)
               /\ At(out, c) = 1 + Len(Flat(fd.locals)) + Len(fd.body)
               /\ d[4].starts[i + 1] = c + 1 + At(out, c)

C4_Witness ==
  /\ pc = "done"
  /\ Len(functionDecls) >= 2
  /\ \E i \in 1..Len(functionDecls) : Len(functionDecls[i].paramTypes) = 2
  /\ \E i \in 1..Len(functionDecls) : Len(functionDecls[i].locals) = 0

(***************************************************************************)
(* C5: the returned bytes are the 8-byte header 00 61 73 6D 01 00 00 00    *)
(* followed by exactly the sections type (1), function (3), export (7),    *)
(* code (10), in this order and with nothing else.                         *)
(***************************************************************************)
C5_ModuleFraming ==
  pc = "done" =>
    LET w == Walk(out, 9)
    IN /\ Len(out) >= 8
       /\ Slice(out, 1, 8) = <<0, 97, 115, 109, 1, 0, 0, 0>>
       /\ [i \in 1..Len(w) |-> w[i].id] = <<1, 3, 7, 10>>
       /\ w[Len(w)].at + w[Len(w)].size = Len(out) + 1

\* the module of a source without functions
C5_Witness ==
  /\ pc = "done"
  /\ functionDecls = <<>>
  /\ Len(out) = 20

(***************************************************************************)
(* C6: with N declarations every section holds N entries in declaration    *)
(* order; function entry i references type i, export entry i carries the   *)
(* name of function i with kind 0x00 and index i, code entry i holds the   *)
(* body of function i.                                                     *)
(***************************************************************************)
C6_OneEntryPerFunction ==
  pc = "done" =>
    LET d == Decode(out)
        n == NFuncs
    IN /\ \A s \in 1..4 : d[s].count = n
       /\ \A i \in 1..n :
            LET nm == IF src.direct THEN functionDecls[i].name
                      ELSE src.funcs[i].name
                body == Uint8Array_from(
                          IF src.direct THEN functionDecls[i].body
                          ELSE FunctionDecl_toWasm(src.funcs[i], symbols).bytes)
                e == d[3].starts[i]
                c == d[4].starts[i]
                ln == Len(stringToBytes(nm))
            IN /\ At(out, d[2].starts[i]) = i - 1
               /\ Slice(out, e + 1, e + ln) = stringToBytes(nm)
               /\ At(out, e) = ln
               /\ At(out, e + ln + 1) = 0
               /\ At(out, e + ln + 2) = i - 1
               /\ d[3].starts[i + 1] = e + ln + 3
               /\ Slice(out, d[4].starts[i + 1] - Len(body),
                        d[4].starts[i + 1] - 1) = body

\* three declarations, two of them of one name
C6_Witness ==
  /\ pc = "done"
  /\ ~src.direct
  /\ Len(src.funcs) = 3
  /\ src.funcs[1].name = src.funcs[2].name
  /\ src.funcs[3].name = "add"

(***************************************************************************)
(* C7: compile ends with the complete module bytes or with an error and no *)
(* bytes; the first error ends it: the functions before the failing one    *)
(* were processed without error, nothing after it is processed, and bytes  *)
(* are returned only when nothing raised.                                  *)
(***************************************************************************)
C7_AllOrNothing ==
  /\ pc = "error" =>
       /\ out = <<>>
       /\ err.err # "none"
       /\ ~ENABLED Next
       /\ (src.ok /\ Len(functionDecls) < Len(src.funcs)) =>
            LET r == FunctionDecl_decl(src.funcs[Len(functionDecls) + 1],
                                       symbols).res
            IN Failed(r) /\ err = [err |-> r.err, id |-> r.id]
  /\ pc \in {"match", "symbols", "decls"} => out = <<>> /\ err = NoErr
  /\ pc = "done" =>
       /\ err = NoErr
       /\ Len(functionDecls) = NFuncs
       /\ out = buildModule(functionDecls).bytes
       /\ C5_ModuleFraming
  /\ (~src.direct /\ pc \in {"decls", "done", "error"}) =>
       \A i \in 1..Len(functionDecls) :
         LET r == FunctionDecl_decl(src.funcs[i], symbols)
         IN ~Failed(r.res) /\ functionDecls[i] = r.decl

\* the second of three functions raised: the third was never processed
C7_Witness ==
  /\ pc = "error"
  /\ Len(src.funcs) = 3
  /\ Len(functionDecls) = 1
  /\ err.err = "undeclared identifier"

(***************************************************************************)
(* Notions of the properties of running code                               *)
(***************************************************************************)
Invoked == entry # <<>>

\* the declaration of the function the caller invoked
InvokedFn == src.funcs[entry.fn + 1]

InvokedAs(nm) == Invoked /\ InvokedFn.name = nm

Top(s) == s[Len(s)]

\* the first argument of the invocation
Arg1 == IF Invoked /\ entry.args # <<>> THEN entry.args[1] ELSE 0

\* a function whose body is one binary chain over its parameters
IsChain(f) ==
  /\ f.body.k = "blockexpr"
  /\ f.body.stmts = <<>>
  /\ f.body.e.k = "bin"
  /\ f.body.e.first.k = "var"
  /\ \A i \in 1..Len(f.body.e.rest) : f.body.e.rest[i].k = "var"

Opcode(op) == binaryOp(op).bytes[1]

\* code(e0), code(e1), opcode(op1), ..., code(en), opcode(opn), end
ChainLayout(f) ==
  LET operand(v) == <<instr_local_get, indexOf(f.params, v.id)>>
      chain == f.body.e
  IN operand(chain.first)
       \o Flat([i \in 1..Len(chain.ops) |->
                  operand(chain.rest[i]) \o <<Opcode(chain.ops[i])>>])
       \o <<instr_end>>

RECURSIVE LeftFold(_, _, _)
\* ((v1 op1 v2) op2 v3) ... up to operator n
LeftFold(ops, vals, n) ==
  IF n = 0 THEN vals[1]
  ELSE Apply(Opcode(ops[n]), LeftFold(ops, vals, n - 1), vals[n + 1])

\* the values of the operands of a chain over the parameters
ChainArgs(f, args) ==
  <<args[indexOf(f.params, f.body.e.first.id) + 1]>>
    \o [i \in 1..Len(f.body.e.rest) |->
          args[indexOf(f.params, f.body.e.rest[i].id) + 1]]

(***************************************************************************)
(* C8: the code of a binary chain is code(e0), code(e1), opcode(op1), ..., *)
(* code(en), opcode(opn): every operand once, in source order, each        *)
(* operator right after its right operand; run on the stack machine it     *)
(* yields the left fold ((e0 op1 e1) op2 e2)..., and the right operand of  *)
(* `and` / `or` is evaluated whatever the left one is.                     *)
(***************************************************************************)
C8_LeftFold ==
  /\ instance # <<>> =>
       \A i \in 1..Len(src.funcs) :
         IsChain(src.funcs[i]) =>
           Slice(out, instance[i].start, instance[i].end)
             = ChainLayout(src.funcs[i])
  /\ (pc \in {"returned", "trapped"} /\ IsChain(InvokedFn)) =>
       result = Returned(LeftFold(InvokedFn.body.e.ops,
                                  ChainArgs(InvokedFn, entry.args),
                                  Len(InvokedFn.body.e.ops)))
  /\ (pc \in {"returned", "trapped"}
        /\ (InvokedAs("both") \/ InvokedAs("either"))) =>
       result = Returned(1)

\* 2 - 1 - 1 is 0, where 2 - (1 - 1) would be 2
C8_Witness ==
  /\ pc = "returned"
  /\ InvokedAs("sub3")
  /\ entry.args = <<2, 1, 1>>
  /\ result = Returned(0)

\* the `if` of a while statement: of type empty, right inside the loop
AtWhileIf ==
  /\ Running
  /\ Op = instr_if
  /\ Imm = blocktype_empty
  /\ Cur.labels # <<>>
  /\ Top(Cur.labels).loop
  /\ Cur.stack # <<>>

CountsTo(n) == Returned(IF n >= 0 THEN n ELSE 0)

\* the countTo of chapter06.ts:285-291, which increments x only below 62
Guarded == InvokedFn = CountToGuarded

\* how the steps of the machine run the code of a while statement
WhileSteps ==
  /\ [][ExecLoop =>
          /\ Cur'.ip = Cur.ip + 2
          /\ Top(Cur'.labels).loop
          /\ Top(Cur'.labels).cont = Cur.ip + 2]_vars
  /\ [][(AtWhileIf /\ ExecIf) =>
          IF Top(Cur.stack) # 0
          THEN /\ Cur'.ip = Cur.ip + 2
               /\ Len(Cur'.labels) = Len(Cur.labels) + 1
          ELSE /\ Cur'.ip = Scan(out, Top(Cur.labels).cont, 0, FALSE)
               /\ Cur'.labels = Cur.labels]_vars
  /\ [][(ExecEnd /\ Top(Cur.labels).loop) =>
          /\ Cur'.labels = Pop(Cur.labels, 1)
          /\ Cur'.ip = Cur.ip + 1]_vars
  /\ [][ExecBr =>
          /\ Cur'.labels # <<>>
          /\ Top(Cur'.labels).loop
          /\ Cur'.ip = Top(Cur'.labels).cont
          /\ At(out, Cur'.ip - 2) = instr_loop]_vars

(***************************************************************************)
(* C9 as stated: c is evaluated before every iteration, a non-zero c runs  *)
(* the body once and goes back to the start of the same loop, a zero c     *)
(* leaves the loop without running the body; so every call countTo(n)      *)
(* returns, with n for n >= 0 and with 0 for n < 0.                        *)
(***************************************************************************)
C9_CountToReturns ==
  /\ WhileSteps
  /\ InvokedAs("countTo")
       ~> (pc = "returned" /\ result = CountsTo(Arg1))

(***************************************************************************)
(* C9 amended: the same run of the loop; the countTo of the while-loops    *)
(* test returns n for n >= 0 and 0 for n < 0, the countTo whose body       *)
(* increments x only below 62 does so for n <= 62 and never returns for    *)
(* n > 62.                                                                 *)
(***************************************************************************)
C9_WhileLoop ==
  /\ WhileSteps
  /\ [](pc \in {"returned", "trapped"} /\ InvokedAs("countTo")
          => result = CountsTo(Arg1))
  /\ (InvokedAs("countTo") /\ (Guarded => Arg1 <= 62))
       ~> (pc = "returned" /\ result = CountsTo(Arg1))
  /\ []((InvokedAs("countTo") /\ Guarded /\ Arg1 > 62)
          => pc = "run")

\* the loop of countTo(2) after its last iteration: x is 2, c is 0
C9_Witness ==
  /\ AtWhileIf
  /\ InvokedAs("countTo")
  /\ entry.args = <<2>>
  /\ Cur.locals = <<2, 2>>
  /\ Top(Cur.stack) = 0

\* functions without loops and calls whose result is an if-expression
Branching == InvokedAs("choose") \/ InvokedAs("isZero") \/ InvokedAs("compare")

Sign(a, b) == IF a < b THEN -1 ELSE IF a > b THEN 1 ELSE 0

(***************************************************************************)
(* C10: the code of `if c A else B` (B a block or again an if-expression)  *)
(* evaluates c once and runs exactly one branch, A for a non-zero c and B  *)
(* for a zero c; the expression's value is the one value that branch left: *)
(* choose(x) is 42 for x # 0 and 43 for x = 0, compare(a, b) is -1, 1, 0   *)
(* for a < b, a > b, a = b.                                                *)
(***************************************************************************)
C10_IfExpr ==
  /\ [][(ExecIf /\ Imm = blocktype_i32 /\ Cur.stack # <<>>) =>
          IF Top(Cur.stack) # 0
          THEN Cur'.ip = Cur.ip + 2
          ELSE /\ Cur'.ip = Scan(out, Cur.ip + 2, 0, TRUE) + 1
               /\ At(out, Cur'.ip - 1) = instr_else]_vars
  /\ [][ExecElse =>
          /\ Cur'.ip = Scan(out, Cur.ip + 1, 0, FALSE) + 1
          /\ Cur'.labels = Pop(Cur.labels, 1)]_vars
  /\ [][((ExecElse \/ ExecEnd) /\ Top(Cur.labels).arity = 1) =>
          Len(Cur.stack) = Top(Cur.labels).height + 1]_vars
  /\ [][(Branching /\ Running /\ Running') => Cur'.ip > Cur.ip]_vars
  /\ [](pc \in {"returned", "trapped"} =>
          /\ InvokedAs("choose") =>
               result = Returned(IF entry.args[1] # 0 THEN 42 ELSE 43)
          /\ InvokedAs("isZero") =>
               result = Returned(IF entry.args[1] # 0 THEN 0 ELSE 1)
          /\ InvokedAs("compare") =>
               result = Returned(Sign(entry.args[1], entry.args[2])))

\* compare(62, 2): the first condition is 0, the second is not
C10_Witness ==
  /\ pc = "returned"
  /\ InvokedAs("compare")
  /\ entry.args = <<62, 2>>
  /\ result = Returned(1)

\* the value an invocation returned; 0 while there is none
Value == IF result # <<>> /\ ~result[1].trap THEN result[1].v ELSE 0

(***************************************************************************)
(* C11: `a and b` is non-zero exactly when a and b are both non-zero, and  *)
(* `a or b` is non-zero exactly when at least one of them is:              *)
(* and_(1,1) = 1, and_(1,0) = 0, or_(1,0) = 1, or_(0,1) = 1.               *)
(***************************************************************************)
C11_LogicalConnectives ==
  pc \in {"returned", "trapped"} =>
    /\ InvokedAs("and_") =>
         /\ pc = "returned"
         /\ (Value # 0) <=> (entry.args[1] # 0 /\ entry.args[2] # 0)
    /\ InvokedAs("or_") =>
         /\ pc = "returned"
         /\ (Value # 0) <=> (entry.args[1] # 0 \/ entry.args[2] # 0)

(***************************************************************************)
(* Notions of the properties of emitted code                               *)
(***************************************************************************)
RECURSIVE Nodes(_)
RECURSIVE NodesOf(_)
\* a node and all nodes under it
Nodes(n) ==
  {n} \cup
    CASE n.k = "let" -> Nodes(n.e)
      [] n.k = "assign" -> Nodes(n.e)
      [] n.k = "blockexpr" -> NodesOf(n.stmts) \cup Nodes(n.e)
      [] n.k = "blockstmts" -> NodesOf(n.stmts)
      [] n.k = "ifs" -> Nodes(n.c) \cup Nodes(n.then) \cup NodesOf(n.els)
      [] n.k = "while" -> Nodes(n.c) \cup Nodes(n.body)
      [] n.k = "exprs" -> Nodes(n.e)
      [] n.k = "bin" -> Nodes(n.first) \cup NodesOf(n.rest)
      [] n.k = "call" -> NodesOf(n.args)
      [] n.k = "ife" -> Nodes(n.c) \cup Nodes(n.then) \cup Nodes(n.els)
      [] OTHER -> {}

NodesOf(nodes) == UNION {Nodes(nodes[i]) : i \in 1..Len(nodes)}

RECURSIVE InstrsFrom(_, _)
\* the positions of the instructions of a body from p on (an instruction
\* is an opcode, followed by one immediate byte where it has one)
InstrsFrom(b, p) ==
  IF p > Len(b) THEN {}
  ELSE {p} \cup InstrsFrom(b, p + (IF HasImmediate(b[p]) THEN 2 ELSE 1))

Instrs(b) == InstrsFrom(b, 1)

\* compile has returned a module for the source
Compiled == pc = "done" /\ ~src.direct

\* the value the encoder enc accepts or rejects, with the range it supports
InRange(r, v, max) ==
  /\ ~Failed(r) <=> (0 <= v /\ v <= max)
  /\ ~Failed(r) => r.bytes = <<v>>

(***************************************************************************)
(* C12: u32(v) returns the single byte [v] exactly when 0 <= v <= 127 and  *)
(* raises for every other v, i32(v) likewise for 0 <= v <= 63, wherever    *)
(* the compiler applies them (function and local indices, literals); so    *)
(* every number of an emitted body is a one-byte LEB128 form (0..127).     *)
(***************************************************************************)
C12_EncodersReject ==
  /\ SymbolsBuilt =>
       \A i \in 1..Len(src.funcs) : \A n \in Nodes(src.funcs[i].body) :
         /\ n.k = "call" =>
              LET v == indexOf(MapKeys(symbols), n.id)
              IN InRange(funcidx(v), v, 127) /\ InRange(u32(v), v, 127)
         /\ n.k = "num" =>
              LET v == parseInt(n.digits)
              IN InRange(i32(v), v, 63)
         /\ (n.k \in {"var", "assign", "let"} /\ MapHas(ScopeOf(i), n.id)) =>
              LET v == MapGet(ScopeOf(i), n.id).idx
              IN InRange(localidx(v), v, 127)
  /\ Compiled =>
       \A i \in 1..Len(functionDecls) :
         \A j \in 1..Len(functionDecls[i].body) :
           functionDecls[i].body[j] \in 0..127

RECURSIVE LetsIn(_, _)
RECURSIVE LetsInAll(_, _)
\* the let statements under a node in textual order, each with whether it
\* lies in the body of an if-statement, an else, a while-statement or an
\* if-expression
LetsIn(n, nested) ==
  CASE n.k = "let" -> <<[id |-> n.id, nested |-> nested]>> \o LetsIn(n.e, nested)
    [] n.k = "blockexpr" -> LetsInAll(n.stmts, nested) \o LetsIn(n.e, nested)
    [] n.k = "blockstmts" -> LetsInAll(n.stmts, nested)
    [] n.k = "ifs" ->
         LetsIn(n.c, nested) \o LetsIn(n.then, TRUE) \o LetsInAll(n.els, TRUE)
    [] n.k = "while" -> LetsIn(n.c, nested) \o LetsIn(n.body, TRUE)
    [] n.k = "exprs" -> LetsIn(n.e, nested)
    [] n.k = "assign" -> LetsIn(n.e, nested)
    [] n.k = "bin" -> LetsIn(n.first, nested) \o LetsInAll(n.rest, nested)
    [] n.k = "call" -> LetsInAll(n.args, nested)
    [] n.k = "ife" ->
         LetsIn(n.c, nested) \o LetsIn(n.then, TRUE) \o LetsIn(n.els, TRUE)
    [] OTHER -> <<>>

LetsInAll(nodes, nested) ==
  Flat([i \in 1..Len(nodes) |-> LetsIn(nodes[i], nested)])

(***************************************************************************)
(* C13: a let statement inside the body of an if-statement, an else, a     *)
(* while-statement or an if-expression, at any depth, is in the function's *)
(* one scope like a top-level let: as the j-th let of the function in      *)
(* textual order it has the index p+j-1 (p parameters, names not reused),  *)
(* and a reference or an assignment to its name anywhere in the function   *)
(* resolves to that slot.                                                  *)
(***************************************************************************)
C13_NestedLets ==
  SymbolsBuilt =>
    \A i \in 1..Len(src.funcs) :
      LET f == src.funcs[i]
          lets == LetsIn(f.body, FALSE)
          names == f.params \o [j \in 1..Len(lets) |-> lets[j].id]
          fns == MapKeys(symbols)
      IN (OnlyOfItsName(i) /\ Distinct(names)) =>
           \A j \in 1..Len(lets) :
             lets[j].nested =>
               LET slot == Len(f.params) + j - 1
               IN /\ MapHas(ScopeOf(i), lets[j].id)
                  /\ MapGet(ScopeOf(i), lets[j].id) =
                       [name |-> lets[j].id, idx |-> slot, what |-> "local"]
                  /\ toWasm(Var(lets[j].id), ScopeOf(i), fns) =
                       Ok(<<instr_local_get, slot>>)
                  /\ toWasm(Assign(lets[j].id, N0), ScopeOf(i), fns) =
                       Ok(<<instr_i32_const, 0, instr_local_tee, slot>>)

RECURSIVE NodeList(_)
RECURSIVE NodeListOf(_)
\* a node and all nodes under it, one element per occurrence
NodeList(n) ==
  <<n>> \o
    CASE n.k = "let" -> NodeList(n.e)
      [] n.k = "assign" -> NodeList(n.e)
      [] n.k = "blockexpr" -> NodeListOf(n.stmts) \o NodeList(n.e)
      [] n.k = "blockstmts" -> NodeListOf(n.stmts)
      [] n.k = "ifs" -> NodeList(n.c) \o NodeList(n.then) \o NodeListOf(n.els)
      [] n.k = "while" -> NodeList(n.c) \o NodeList(n.body)
      [] n.k = "exprs" -> NodeList(n.e)
      [] n.k = "bin" -> NodeList(n.first) \o NodeListOf(n.rest)
      [] n.k = "call" -> NodeListOf(n.args)
      [] n.k = "ife" -> NodeList(n.c) \o NodeList(n.then) \o NodeList(n.els)
      [] OTHER -> <<>>

NodeListOf(nodes) == Flat([i \in 1..Len(nodes) |-> NodeList(nodes[i])])

\* the number of occurrences of the kinds ks under a function body
CountNodes(body, ks) ==
  LET ns == NodeList(body)
  IN Cardinality({j \in 1..Len(ns) : ns[j].k \in ks})

\* the number of instructions of b with opcode op
CountOps(b, op) == Cardinality({p \in Instrs(b) : b[p] = op})

RECURSIVE Nested(_, _, _)
\* the instructions of b from p on, read with the constructs that are open
\* at p (innermost last: "if", "else" for an if past its else, "loop"):
\* every end closes the innermost open construct, an else comes only right
\* inside an if that has had none, a br has depth 1 with an if as label 0
\* and a loop as label 1 and is followed by the ends of the two, and the
\* end that finds nothing open is the last byte
Nested(b, p, open) ==
  IF p > Len(b) THEN FALSE
  ELSE CASE b[p] = instr_if -> Nested(b, p + 2, Append(open, "if"))
         [] b[p] = instr_loop -> Nested(b, p + 2, Append(open, "loop"))
         [] b[p] = instr_else ->
              /\ open # <<>>
              /\ Top(open) = "if"
              /\ Nested(b, p + 1, [open EXCEPT ![Len(open)] = "else"])
         [] b[p] = instr_end ->
              IF open = <<>> THEN p = Len(b)
              ELSE Nested(b, p + 1, Pop(open, 1))
         [] b[p] = instr_br ->
              /\ At(b, p + 1) = 1
              /\ Len(open) >= 2
              /\ Top(open) = "if"
              /\ open[Len(open) - 1] = "loop"
              /\ Slice(b, p + 2, p + 3) = <<instr_end, instr_end>>
              /\ Nested(b, p + 2, open)
         [] OTHER ->
              Nested(b, p + (IF HasImmediate(b[p]) THEN 2 ELSE 1), open)

(***************************************************************************)
(* C14: in the code generated for a function body every if and every loop  *)
(* is closed by one end of its own, an else occurs only directly inside an *)
(* if and once per if, the body ends with one further end, and the br of   *)
(* a while-statement has depth 1 where label 0 is the while's if and       *)
(* label 1 its loop; the code has one loop, one if and one br per          *)
(* while-statement and one if per if-statement and if-expression.          *)
(***************************************************************************)
C14_WellNested ==
  SymbolsBuilt =>
    \A i \in 1..Len(functionDecls) :
      LET b == functionDecls[i].body
          body == src.funcs[i].body
          ns == NodeList(body)
          elses == Cardinality({j \in 1..Len(ns) :
                     ns[j].k = "ife" \/ (ns[j].k = "ifs" /\ ns[j].els # <<>>)})
      IN /\ Nested(b, 1, <<>>)
         /\ CountOps(b, instr_loop) = CountNodes(body, {"while"})
         /\ CountOps(b, instr_br) = CountNodes(body, {"while"})
         /\ CountOps(b, instr_if) = CountNodes(body, {"while", "ifs", "ife"})
         /\ CountOps(b, instr_else) = elses
         /\ CountOps(b, instr_end) =
              CountOps(b, instr_if) + CountOps(b, instr_loop) + 1

\* the module of the function with a while in an if in a while
C14_Witness ==
  /\ pc = "done"
  /\ src.funcs = <<NestedLoops>>
  /\ CountOps(functionDecls[1].body, instr_br) = 2
  /\ CountOps(functionDecls[1].body, instr_else) = 1

\* the names of the parameter and let declarations buildSymbolTable
\* processes for a function, in the order it processes them
Declared(f) ==
  f.params \o [j \in 1..Len(symNode(f.body)) |-> symNode(f.body)[j].id]

Range(s) == {s[j] : j \in 1..Len(s)}

(***************************************************************************)
(* C15: after buildSymbolTable has processed the parameter and let         *)
(* declarations of a function, names declared more than once included,     *)
(* the function scope holds one entry per distinct name, and the indices   *)
(* of its entries are pairwise distinct and are exactly 0..size-1, all     *)
(* parameters before all locals.                                           *)
(***************************************************************************)
C15_ScopeIndices ==
  SymbolsBuilt =>
    \A i \in 1..Len(src.funcs) :
      OnlyOfItsName(i) =>
        LET sc == ScopeOf(i)
        IN /\ Range(MapKeys(sc)) = Range(Declared(src.funcs[i]))
           /\ Len(sc) = Cardinality(Range(Declared(src.funcs[i])))
           /\ \A j, k \in 1..Len(sc) : j # k => sc[j].idx # sc[k].idx
           /\ {sc[j].idx : j \in 1..Len(sc)} = 0..(Len(sc) - 1)
           /\ \A j, k \in 1..Len(sc) :
                (sc[j].what = "param" /\ sc[k].what = "local") =>
                  sc[j].idx < sc[k].idx

\* the slots a FunctionDecl record declares: its parameters, and the count
\* of its one local-declaration entry locals(varsCount, i32)
Slots(decl) == Len(decl.paramTypes) + decl.locals[1][1]

(***************************************************************************)
(* C16: in a module compile returns, every local index after local.get,    *)
(* local.set or local.tee in the body of a function is smaller than the    *)
(* number of slots the function's record declares (the length of           *)
(* paramTypes plus the count of its local-declaration entry), and the      *)
(* length of paramTypes is the number of parameters the declaration names. *)
(***************************************************************************)
C16_LocalsInRange ==
  Compiled =>
    \A i \in 1..Len(functionDecls) :
      LET decl == functionDecls[i]
          b == decl.body
      IN /\ \A p \in Instrs(b) :
              b[p] \in {instr_local_get, instr_local_set, instr_local_tee} =>
                At(b, p + 1) \in 0..(Slots(decl) - 1)
         /\ Len(decl.paramTypes) = Len(src.funcs[i].params)

\* the call expressions of function i whose callee no declaration names
UndeclaredCalls(i) ==
  {n \in Nodes(src.funcs[i].body) :
     n.k = "call" /\ \A j \in 1..Len(src.funcs) : src.funcs[j].name # n.id}

(***************************************************************************)
(* C17: every function index that follows a call opcode in a module        *)
(* compile returns lies in 0..N-1, N the number of functions declared; a   *)
(* call whose callee is no declared function never reaches the output:     *)
(* compile raises an error instead.                                        *)
(***************************************************************************)
C17_CalleeDeclared ==
  /\ Compiled =>
       \A i \in 1..Len(functionDecls) :
         \A p \in Instrs(functionDecls[i].body) :
           functionDecls[i].body[p] = instr_call =>
             At(functionDecls[i].body, p + 1) \in 0..(Len(src.funcs) - 1)
  /\ SymbolsBuilt =>
       \A i \in 1..Len(src.funcs) :
         UndeclaredCalls(i) # {} => pc # "done" /\ Len(functionDecls) < i

RECURSIVE Height(_, _, _, _, _, _)
\* the height of the operand stack after running the instructions of b
\* from p on, one after another, starting with height h; -1 when an
\* instruction pops more values than the stack holds or a construct does
\* not leave what its type says.  open: the open constructs, each with the
\* height below it and the number of values it leaves; dead: the
\* instructions at p follow a br and are never run; nparams: the number of
\* parameters of every function of the module.  A call pops as many values
\* as its callee has parameters and pushes one (an index that names no
\* function cannot be run).
Height(b, p, h, open, dead, nparams) ==
  IF p > Len(b) THEN (IF open = <<>> THEN h ELSE -1)
  ELSE LET op == b[p]
           pops == CASE op \in {instr_local_set, instr_local_tee, instr_drop,
                                instr_if} -> 1
                     [] IsBinary(op) -> 2
                     [] op = instr_call ->
                          IF At(b, p + 1) + 1 \in 1..Len(nparams)
                          THEN nparams[At(b, p + 1) + 1] ELSE h + 1
                     [] OTHER -> 0
           pushes == CASE op \in {instr_i32_const, instr_local_get,
                                  instr_local_tee, instr_call} -> 1
                       [] IsBinary(op) -> 1
                       [] OTHER -> 0
           next == p + (IF HasImmediate(op) THEN 2 ELSE 1)
       IN IF ~dead /\ h < pops THEN -1
          ELSE IF op = instr_end
          THEN IF open = <<>> THEN (IF p = Len(b) THEN h ELSE -1)
               ELSE IF ~dead /\ h # Top(open).base + Top(open).arity THEN -1
               ELSE Height(b, next, Top(open).base + Top(open).arity,
                           Pop(open, 1), FALSE, nparams)
          ELSE IF op = instr_else
          THEN IF open = <<>> THEN -1
               ELSE IF ~dead /\ h # Top(open).base + Top(open).arity THEN -1
               ELSE Height(b, next, Top(open).base, open, FALSE, nparams)
          ELSE IF op \in {instr_if, instr_loop}
          THEN Height(b, next, h - pops,
                      Append(open, [base |-> h - pops,
                                    arity |-> Arity(At(b, p + 1))]),
                      dead, nparams)
          ELSE IF op = instr_br
          THEN Height(b, next, h, open, TRUE, nparams)
          ELSE Height(b, next, IF dead THEN h ELSE h - pops + pushes,
                      open, dead, nparams)

\* the statements of the grammar; every other node is an expression
IsStatement(n) == n.k \in {"let", "exprs", "ifs", "while", "blockstmts"}

(***************************************************************************)
(* C18: in a module compile returns, the code of every function, run       *)
(* instruction by instruction with a call popping as many values as its    *)
(* callee has parameters and pushing one, never pops from an empty stack:  *)
(* the code of every statement leaves the height as it found it, the code  *)
(* of every expression raises it by one, and the function reaches its      *)
(* final end with exactly one value.  Stated for the modules all of whose  *)
(* calls name a declared function.                                         *)
(***************************************************************************)
C18_StackDiscipline ==
  (Compiled /\ \A i \in 1..Len(src.funcs) : UndeclaredCalls(i) = {}) =>
    LET nparams == [j \in 1..Len(functionDecls) |->
                      Len(functionDecls[j].paramTypes)]
    IN \A i \in 1..Len(functionDecls) :
         /\ Height(functionDecls[i].body, 1, 0, <<>>, FALSE, nparams) = 1
         /\ \A n \in Nodes(src.funcs[i].body) :
              Height(toWasm(n, ScopeOf(i), MapKeys(symbols)).bytes,
                     1, 0, <<>>, FALSE, nparams)
                = IF IsStatement(n) THEN 0 ELSE 1

====
